---- MODULE Spec2Model ----
(***************************************************************************)
(* iroha_wasm_pack (src/src/main.rs): the `build` and `new` commands.      *)
(*                                                                         *)
(* A text is a sequence of symbols.  A symbol is one character ("/", ".",  *)
(* "+", a digit) or a word that holds none of the characters the program   *)
(* looks at ("target", ".wasm", "rustc ").  A path is the sequence of its  *)
(* components, as std::path compares paths; every path of the model is     *)
(* absolute, <<>> being the filesystem root.                               *)
(***************************************************************************)
EXTENDS Integers, Sequences, FiniteSets, TLC

VARIABLES
    subcommand,     \* Args.subcommand: "build" or "new"
    args_name,      \* NewArgs.name
    cargo_new,      \* how `cargo new` ends
    fs_write,       \* how the two fs::write calls of `new` end
    extra_options,  \* BuildArgs.extra_options
    cwd,            \* the process's current directory
    manifests,      \* the directories that hold a Cargo.toml
    manifest,       \* what reading and parsing the Cargo.toml gives
    rustc_version,  \* how `rustc --version` ends
    rustc_sysroot,  \* how `rustc --print sysroot` and what follows it end
    cargo_build,    \* how `cargo build` ends
    wasm_opt,       \* how the optimizer ends
    wasm_out_meta,  \* what fs::metadata gives for the optimized artifact
    disk,           \* the files the commands and the program have written
    writes,         \* the fs::write calls of the program so far, in order
    pc,             \* where main / run / BuildContext::new stands
    cur,            \* root(): the directory under test, then the result
    profile,        \* BuildContext::new: the local `profile`
    ctx,            \* the BuildContext
    step,           \* index of the next step of the array in run
    invoked,        \* the steps invoked so far, in order
    calls,          \* the external commands run so far, in order
    result,         \* what run() returned, or the panic that ended it
    stderr          \* what main logged with error!

\* the command line and the world the program runs in: never written
world == <<subcommand, args_name, cargo_new, fs_write, extra_options, cwd,
           manifests, manifest, rustc_version, rustc_sysroot, cargo_build,
           wasm_opt, wasm_out_meta>>

vars == <<world, disk, writes, pc, cur, profile, ctx, step, invoked, calls,
          result, stderr>>

(***************************************************************************)
(* Bounds of the model.                                                    *)
(***************************************************************************)
MaxOpts == 2        \* extra options on the command line
MaxDepth == 2       \* depth of the current directory below the root
MaxNameLen == 2     \* symbols of the package name
MaxKinds == 2       \* entries of crate-type
MaxMinorLen == 2    \* symbols of the minor version rustc prints

(***************************************************************************)
(* Texts.                                                                  *)
(***************************************************************************)
SeqsUpTo(S, n) == UNION {[1..k -> S] : k \in 0..n}

Digits == {"0", "1", "2", "3", "4", "5", "6", "7", "8", "9"}

DigitValue(c) ==
    CASE c = "0" -> 0 [] c = "1" -> 1 [] c = "2" -> 2 [] c = "3" -> 3
      [] c = "4" -> 4 [] c = "5" -> 5 [] c = "6" -> 6 [] c = "7" -> 7
      [] c = "8" -> 8 [] c = "9" -> 9

\* str::split: the pieces of s between the occurrences of sep
RECURSIVE Split(_, _)
Split(s, sep) ==
    IF \A i \in 1..Len(s) : s[i] # sep
    THEN <<s>>
    ELSE LET i == CHOOSE k \in 1..Len(s) :
                     s[k] = sep /\ \A j \in 1..(k - 1) : s[j] # sep
         IN  <<SubSeq(s, 1, i - 1)>> \o Split(SubSeq(s, i + 1, Len(s)), sep)

\* str::contains
Contains(s, t) ==
    \E i \in 0..(Len(s) - Len(t)) : SubSeq(s, i + 1, i + Len(t)) = t

(***************************************************************************)
(* Paths (std::path::PathBuf).                                             *)
(***************************************************************************)
RECURSIVE DropEmpty(_)
DropEmpty(pieces) ==
    IF pieces = <<>> THEN <<>>
    ELSE IF Head(pieces) = <<>> \/ Head(pieces) = <<".">>
         THEN DropEmpty(Tail(pieces))
         ELSE <<Head(pieces)>> \o DropEmpty(Tail(pieces))

\* Path::components: repeated separators and `.` components are dropped
Components(s) == DropEmpty(Split(s, "/"))

\* PathBuf::join: an absolute argument replaces the path
Join(path, s) ==
    IF s # <<>> /\ s[1] = "/" THEN Components(s) ELSE path \o Components(s)

\* a file of the disk: its path and what it holds
File(path, kind, name) == [path |-> path, kind |-> kind, name |-> name]

\* fs::write and the commands create the file or replace what it held
Put(files, file) == {f \in files : f.path # file.path} \cup {file}

\* a slip in the walk: straight to the filesystem root
PopToRoot(path) == <<>>

\* PathBuf::pop: the parent, or no change at the root
Pop(path) == IF path = <<>> THEN path ELSE SubSeq(path, 1, Len(path) - 1)

(***************************************************************************)
(* What a call returns: Ok(()), Err(failure::Error) or a panic.  msg holds *)
(* the lines of the message with {} where a value is formatted in, nums    *)
(* the numbers formatted in.                                               *)
(***************************************************************************)
Ok == [tag |-> "Ok", msg |-> <<>>, nums |-> <<>>]
Err(msg, nums) == [tag |-> "Err", msg |-> msg, nums |-> nums]
Panic(msg) == [tag |-> "Panic", msg |-> msg, nums |-> <<>>]
None == [tag |-> "None", msg |-> <<>>, nums |-> <<>>]

\* the failure::Error made by `?` from a std::io::Error
IoError == <<"io error: {}">>
\* the failure::Error made by `?` from a std::num::ParseIntError
ParseIntError == <<"invalid digit found in string">>

(***************************************************************************)
(* The inputs: the command line and the filesystem the program starts in.  *)
(***************************************************************************)
\* command-line tokens; the program compares a token only as a whole
Tokens == {"--release", "--releases", "-r"}

DirName(k) == <<"d", ToString(k)>>
Chain(d) == [k \in 1..d |-> DirName(k)]
Ancestors(dir) == {SubSeq(dir, 1, k) : k \in 0..Len(dir)}

\* package.name of the manifest
NameSymbols == {"a", "/"}
Names == SeqsUpTo(NameSymbols, MaxNameLen)

\* lib.crate-type of the manifest
Kinds == {"cdylib", "rlib"}
CrateTypes == SeqsUpTo(Kinds, MaxKinds)

\* what reading and parsing <root>/Cargo.toml gives
ManifestOutcomes ==
    {[read |-> "unreadable"], [read |-> "malformed"]}
        \cup {[read |-> "parsed", name |-> n, crate_type |-> k] :
                  n \in Names, k \in CrateTypes}

(***************************************************************************)
(* main (52-57) and the ends of run.                                       *)
(***************************************************************************)
\* run returns r to main
Return(r) == /\ result' = r
             /\ pc' = "returned"

\* a panic unwinds through run and main and ends the process
Abort(m) == /\ result' = Panic(m)
            /\ pc' = "panicked"

\* main: if let Err(err) = args.subcommand.run() { error!("{}", err) }
Main ==
    /\ pc = "returned"
    /\ stderr' = IF result.tag = "Err" THEN Append(stderr, result) ELSE stderr
    /\ pc' = "exit"
    /\ UNCHANGED <<world, disk, writes, cur, profile, ctx, step,
                   invoked, calls, result>>

(***************************************************************************)
(* BuildContext::new (93-111) with root (132-139) and pasre_cargo_config   *)
(* (183-190).                                                              *)
(***************************************************************************)
NoCargoToml ==
    <<"No Cargo.toml found from current dir or parent, you should init a project by ",
      "iroha_wasm_pack new", " first">>

\* let root = root(current_dir()?)
CurrentDir ==
    /\ pc = "main"
    /\ subcommand = "build"
    /\ \E ok \in BOOLEAN :
         IF ok THEN /\ cur' = cwd
                    /\ pc' = "root"
                    /\ UNCHANGED result
               ELSE /\ Return(Err(IoError, <<>>))
                    /\ UNCHANGED cur
    /\ UNCHANGED <<world, disk, writes, profile, ctx, step,
                   invoked, calls, stderr>>

\* cur.join("Cargo.toml").exists()
HasManifest(dir) == dir \in manifests

\* while !exists { if !cur.pop() { return Err } }: one turn of the loop
RootPop ==
    /\ pc = "root"
    /\ ~HasManifest(cur)
    /\ cur # <<>>
    /\ cur' = Pop(cur)
    /\ UNCHANGED <<world, disk, writes, pc, profile, ctx, step,
                   invoked, calls, result, stderr>>

\* a slip at the filesystem root: the root itself taken as the project
RootNotFoundTakesRoot ==
    /\ pc = "root"
    /\ ~HasManifest(cur)
    /\ cur = <<>>
    /\ pc' = "config"
    /\ UNCHANGED <<world, disk, writes, cur, profile, ctx, step,
                   invoked, calls, result, stderr>>

\* the loop at the filesystem root: pop() is false
RootNotFound ==
    /\ pc = "root"
    /\ ~HasManifest(cur)
    /\ cur = <<>>
    /\ Return(Err(NoCargoToml, <<>>))
    /\ UNCHANGED <<world, disk, writes, cur, profile, ctx, step,
                   invoked, calls, stderr>>

\* the loop ends: Ok(cur)
RootFound ==
    /\ pc = "root"
    /\ HasManifest(cur)
    /\ pc' = "config"
    /\ UNCHANGED <<world, disk, writes, cur, profile, ctx, step,
                   invoked, calls, result, stderr>>

\* a slip in the scan: only the first option is looked at
IsReleaseFirstOnly(opts) == opts # <<>> /\ opts[1] = "--release"

\* args.extra_options.iter().any(|x| x == "--release")
IsRelease(opts) == \E i \in 1..Len(opts) : opts[i] = "--release"

Profile(opts) == IF IsRelease(opts) THEN "release" ELSE "debug"

WasmFolder(root, opts) ==
    Join(Join(Join(root, <<"target">>), <<"wasm32-unknown-unknown">>),
         <<Profile(opts)>>)

WasmIn(root, name, opts) == Join(WasmFolder(root, opts), name \o <<".wasm">>)

WasmOut(root, name, opts) ==
    Join(WasmFolder(root, opts), name \o <<"_optimized.wasm">>)

\* a slip in the choice of the kind: the last entry
FirstIsLast(kinds) == IF kinds = <<>> THEN <<>> ELSE <<kinds[Len(kinds)]>>

\* config.lib.crate_type.first(): Some(the first entry) or None
First(kinds) == IF kinds = <<>> THEN <<>> ELSE <<kinds[1]>>

ParseFailed == <<"parse cargo toml failed, error = {}">>
UnwrapErr == <<"called Result::unwrap() on an Err value">>
UnwrapNone == <<"called Option::unwrap() on a None value">>

\* the rest of BuildContext::new once root() has returned
NewContext ==
    /\ pc = "config"
    /\ LET m == manifest IN
         /\ CASE m.read = "unreadable" ->
                   \* fs::read_to_string(..).unwrap()
                   /\ Abort(UnwrapErr)
                   /\ UNCHANGED <<profile, ctx>>
              [] m.read = "malformed" ->
                   /\ Return(Err(ParseFailed, <<>>))
                   /\ UNCHANGED <<profile, ctx>>
              [] m.read = "parsed" /\ First(m.crate_type) = <<>> ->
                   \* config.lib.crate_type.first().unwrap()
                   /\ Abort(UnwrapNone)
                   /\ profile' = Profile(extra_options)
                   /\ UNCHANGED ctx
              [] m.read = "parsed" /\ First(m.crate_type) # <<>> ->
                   /\ profile' = Profile(extra_options)
                   /\ ctx' = [built |-> TRUE,
                              crate_type |-> First(m.crate_type)[1],
                              wasm_in |-> WasmIn(cur, m.name, extra_options),
                              wasm_out |-> WasmOut(cur, m.name, extra_options)]
                   /\ pc' = "steps"
                   /\ UNCHANGED result
    /\ UNCHANGED <<world, disk, writes, cur, step, invoked,
                   calls, stderr>>

(***************************************************************************)
(* The loop of BuildArgs::run (117-127).                                   *)
(***************************************************************************)
\* a slip in the array: the compilation ahead of the checks
StepsBuildFirst ==
    <<"step_build_wasm", "step_check_rustc_version",
      "step_check_crate_config", "step_check_for_wasm_target",
      "step_wasm_opt", "step_iroha_binary_size_check">>

Steps == <<"step_check_rustc_version", "step_check_crate_config",
           "step_check_for_wasm_target", "step_build_wasm", "step_wasm_opt",
           "step_iroha_binary_size_check">>

\* the loop is about to call the step `name`
AtStep(name) == /\ pc = "steps"
                /\ step \in 1..Len(Steps)
                /\ Steps[step] = name

\* a slip in the loop: `step(&self, &ctx);` without the `?`
StepDoneIgnored(name, r) ==
    /\ invoked' = Append(invoked, name)
    /\ IF r.tag = "Panic" THEN /\ Abort(r.msg)
                               /\ UNCHANGED step
                          ELSE /\ step' = step + 1
                               /\ UNCHANGED <<pc, result>>

\* step(&self, &ctx)? : the step `name` was called and gave r
StepDone(name, r) ==
    /\ invoked' = Append(invoked, name)
    /\ CASE r.tag = "Ok" -> /\ step' = step + 1
                            /\ UNCHANGED <<pc, result>>
         [] r.tag = "Err" -> /\ Return(r)
                             /\ UNCHANGED step
         [] r.tag = "Panic" -> /\ Abort(r.msg)
                               /\ UNCHANGED step

\* the array is exhausted: Ok(())
RunOk ==
    /\ pc = "steps"
    /\ step > Len(Steps)
    /\ Return(Ok)
    /\ UNCHANGED <<world, disk, writes, cur, profile, ctx, step,
                   invoked, calls, stderr>>

(***************************************************************************)
(* Step 1: rustc_minor_version (142-153), step_check_rustc_version         *)
(* (155-162).                                                              *)
(***************************************************************************)
MinRustcMinor == 30

\* what `rustc --version` prints: "rustc 1.<minor>.0" for every minor text
\* of the bound, and some outputs of other shapes
MinorSymbols == {"0", "2", "3", "5", "9", "+", "x"}
MinorTexts == SeqsUpTo(MinorSymbols, MaxMinorLen)
OtherVersionTexts ==
    { <<>>,
      <<"rustc ", "1">>,
      <<"rustc ", "1", ".", "3", "0">>,
      <<"rustc ", "1", ".", "3", "0", "-nightly">>,
      <<"rustc ", "1", "0", ".", "3", "0", ".", "0">>,
      <<"rustc ", "2", ".", "3", "0", ".", "0">>,
      <<"cargo ", "1", ".", "3", "0", ".", "0">> }
VersionText(minor) == <<"rustc ", "1", ".">> \o minor \o <<".", "0">>
VersionTexts == {VersionText(t) : t \in MinorTexts} \cup OtherVersionTexts

\* cmd!("rustc", "--version").read(): the tool is missing, exits non-zero,
\* or prints
VersionOutcomes ==
    {[status |-> "missing"], [status |-> "nonzero"]}
        \cup {[status |-> "ok", stdout |-> t] : t \in VersionTexts}

RECURSIVE Decimal(_)
Decimal(ds) ==
    IF ds = <<>> THEN 0
    ELSE 10 * Decimal(SubSeq(ds, 1, Len(ds) - 1)) + DigitValue(ds[Len(ds)])

\* a slip in the parse: 0 for a text that is no number (unwrap_or_default)
ParseU32OrZero(s) ==
    IF s # <<>> /\ \A i \in 1..Len(s) : s[i] \in Digits
    THEN [ok |-> TRUE, value |-> Decimal(s)]
    ELSE [ok |-> TRUE, value |-> 0]

\* str::parse::<u32>: an optional + and at least one digit.  A value that
\* does not fit 32 bits is an error too; the minor texts of the bound are
\* too short to reach it.
ParseU32(s) ==
    IF s = <<>> THEN [ok |-> FALSE, value |-> 0]
    ELSE IF Len(s) = 1 /\ s[1] \in {"+", "-"} THEN [ok |-> FALSE, value |-> 0]
    ELSE LET ds == IF s[1] = "+" THEN Tail(s) ELSE s
         IN  IF \E i \in 1..Len(ds) : ds[i] \notin Digits
             THEN [ok |-> FALSE, value |-> 0]
             ELSE [ok |-> TRUE, value |-> Decimal(ds)]

CantFigureOut == <<"We can't figure out what your Rust version is- which means you might not have Rust installed. Please install Rust version 1.30.0 or higher.">>
TooOld == <<"Your version of Rust, '1.{}', is not supported. Please install Rust version 1.30.0 or higher.">>

\* rustc_minor_version on what the command gave
RustcMinorVersion(out) ==
    IF out.status # "ok" THEN [ok |-> FALSE, value |-> 0, err |-> IoError]
    ELSE LET pieces == Split(out.stdout, ".")
         IN  IF pieces[1] = <<"rustc ", "1">> /\ Len(pieces) >= 2
             THEN LET version == ParseU32(pieces[2])
                  IN  IF version.ok
                      THEN [ok |-> TRUE, value |-> version.value,
                            err |-> <<>>]
                      ELSE [ok |-> FALSE, value |-> 0, err |-> ParseIntError]
             ELSE [ok |-> FALSE, value |-> 0, err |-> CantFigureOut]

\* a slip in the threshold: `<=` for `<`
CheckRustcVersionOffByOne(out) ==
    LET local_minor_version == RustcMinorVersion(out)
    IN  IF ~local_minor_version.ok THEN Err(local_minor_version.err, <<>>)
        ELSE IF local_minor_version.value <= MinRustcMinor
             THEN Err(TooOld, <<local_minor_version.value>>)
             ELSE Ok

\* step_check_rustc_version on what the command gave
CheckRustcVersion(out) ==
    LET local_minor_version == RustcMinorVersion(out)
    IN  IF ~local_minor_version.ok THEN Err(local_minor_version.err, <<>>)
        ELSE IF local_minor_version.value < MinRustcMinor
             THEN Err(TooOld, <<local_minor_version.value>>)
             ELSE Ok

StepCheckRustcVersion ==
    /\ AtStep("step_check_rustc_version")
    /\ calls' = Append(calls, [cmd |-> "rustc", args |-> <<"--version">>])
    /\ StepDone("step_check_rustc_version", CheckRustcVersion(rustc_version))
    /\ UNCHANGED <<world, disk, writes, cur, profile, ctx, stderr>>

(***************************************************************************)
(* Step 2: step_check_crate_config (193-203).                              *)
(***************************************************************************)
MustBeCdylib ==
    <<"crate-type must be cdylib to compile to wasm32-unknown-unknown. Add the following to your Cargo.toml file:",
      "",
      "[lib]",
      "crate-type = [\"cdylib\"]">>

CheckCrateConfig(c) ==
    IF c.crate_type = "cdylib" THEN Ok ELSE Err(MustBeCdylib, <<>>)

StepCheckCrateConfig ==
    /\ AtStep("step_check_crate_config")
    /\ StepDone("step_check_crate_config", CheckCrateConfig(ctx))
    /\ UNCHANGED <<world, disk, writes, cur, profile, ctx, calls,
                   stderr>>

(***************************************************************************)
(* Step 3: get_rustc_sysroot (206-218), is_wasm32_target_in_sysroot        *)
(* (221-235), rustup_add_wasm_target (238-248),                            *)
(* step_check_for_wasm_target (250-266).                                   *)
(***************************************************************************)
\* what `rustc --print sysroot` prints, character by character
SysrootTexts ==
    { <<"/", "u", "s", "r">>,
      <<"/", ".", "r", "u", "s", "t", "u", "p", "/", "t">>,
      <<"/", "r", "u", "s", "t", "/", "u", "p">> }

Rustup == <<"r", "u", "s", "t", "u", "p">>

\* the message of get_rustc_sysroot; building it panics (see GetRustcSysroot)
SysrootFailed == <<"Getting rustc's sysroot wasn't successful. Got {}">>
RustupFailed == <<"Adding the wasm32-unknown-unknown target with rustup failed, error = {}">>

\* the answers step 3 gets: the sysroot query; whether
\* <sysroot>/lib/rustlib/wasm32-unknown-unknown exists; how `rustup target
\* add` ends.  A question the step does not ask has the answer "unasked".
SysrootAnswers ==
    {[status |-> "failed", stdout |-> <<>>, target |-> "unasked",
      rustup |-> "unasked"]}
        \cup {[status |-> "ok", stdout |-> t, target |-> e, rustup |-> r] :
                  t \in SysrootTexts, e \in {"exists", "absent"},
                  r \in {"unasked", "ok", "failed"}}

\* get_rustc_sysroot: on a failed query the message is built from
\* result.unwrap(), which panics
GetRustcSysroot(out) ==
    IF out.status # "ok" THEN Panic(UnwrapErr) ELSE Ok

\* whether the step runs `rustup target add` after a successful query
AsksRustup(out) ==
    /\ out.status = "ok"
    /\ out.target = "absent"
    /\ Contains(out.stdout, Rustup)

SysrootOutcomes ==
    {a \in SysrootAnswers : (a.rustup # "unasked") <=> AsksRustup(a)}

RustupAddWasmTarget(out) ==
    IF out.rustup = "ok" THEN Ok ELSE Err(RustupFailed, <<>>)

\* a slip: the installer asked without looking for the target first
CheckForWasmTargetUnseen(out) ==
    IF GetRustcSysroot(out).tag # "Ok" THEN GetRustcSysroot(out)
    ELSE IF Contains(out.stdout, Rustup) THEN RustupAddWasmTarget(out)
    ELSE Ok

CheckForWasmTarget(out) ==
    IF GetRustcSysroot(out).tag # "Ok" THEN GetRustcSysroot(out)
    ELSE IF out.target = "exists" THEN Ok
    ELSE IF Contains(out.stdout, Rustup) THEN RustupAddWasmTarget(out)
    ELSE Ok

StepCheckForWasmTarget ==
    /\ AtStep("step_check_for_wasm_target")
    /\ calls' = calls
           \o <<[cmd |-> "rustc", args |-> <<"--print", "sysroot">>]>>
           \o (IF AsksRustup(rustc_sysroot)
               THEN <<[cmd |-> "rustup",
                       args |-> <<"target", "add", "wasm32-unknown-unknown">>]>>
               ELSE <<>>)
    /\ StepDone("step_check_for_wasm_target",
                CheckForWasmTarget(rustc_sysroot))
    /\ UNCHANGED <<world, disk, writes, cur, profile, ctx, stderr>>

(***************************************************************************)
(* Step 4: step_build_wasm (268-287).                                      *)
(***************************************************************************)
BuildFailed == <<"build wasm failed, error = {}">>

\* a slip: --release taken by the tool itself and not forwarded
CargoArgsReleaseConsumed(opts) ==
    <<"+nightly", "build", "-Z", "build-std", "-Z",
      "build-std-features=panic_immediate_abort", "--target",
      "wasm32-unknown-unknown">> \o SelectSeq(opts, LAMBDA t : t # "--release")

CargoArgs(opts) ==
    <<"+nightly", "build", "-Z", "build-std", "-Z",
      "build-std-features=panic_immediate_abort", "--target",
      "wasm32-unknown-unknown">> \o opts

BuildWasm(ran) == IF ran = "ok" THEN Ok ELSE Err(BuildFailed, <<>>)

\* the child process: cargo builds the release profile when its arguments
\* hold --release or its short form -r, the dev profile (directory debug)
\* otherwise
CargoMode(args) ==
    IF \E i \in 1..Len(args) : args[i] \in {"--release", "-r"}
    THEN "release" ELSE "debug"

\* the child process: where cargo leaves the artifact of the package
CargoArtifact(root, name, args) ==
    Join(Join(Join(Join(root, <<"target">>), <<"wasm32-unknown-unknown">>),
              <<CargoMode(args)>>),
         name \o <<".wasm">>)

\* cmd("cargo", args).run(); on success cargo has written the artifact
StepBuildWasm ==
    /\ AtStep("step_build_wasm")
    /\ calls' = Append(calls, [cmd |-> "cargo",
                               args |-> CargoArgs(extra_options)])
    /\ disk' = IF cargo_build = "ok"
               THEN Put(disk, File(CargoArtifact(cur, manifest.name,
                                                 CargoArgs(extra_options)),
                                   "wasm", manifest.name))
               ELSE disk
    /\ StepDone("step_build_wasm", BuildWasm(cargo_build))
    /\ UNCHANGED <<world, writes, cur, profile, ctx, stderr>>

(***************************************************************************)
(* Step 5: step_wasm_opt (289-293).                                        *)
(***************************************************************************)
OptFailed == <<"wasm-opt: {}">>

WasmOpt(ran) == IF ran = "ok" THEN Ok ELSE Err(OptFailed, <<>>)

StepWasmOpt ==
    /\ AtStep("step_wasm_opt")
    /\ calls' = Append(calls, [cmd |-> "wasm_opt", from |-> ctx.wasm_in,
                               to |-> ctx.wasm_out])
    /\ StepDone("step_wasm_opt", WasmOpt(wasm_opt))
    /\ UNCHANGED <<world, disk, writes, cur, profile, ctx, stderr>>

(***************************************************************************)
(* Step 6: step_iroha_binary_size_check (295-304).                         *)
(***************************************************************************)
MaxWasmSize == 4194304

TooLarge == <<"Wasm binary too large, max size is ", "4194304", ", but got {}">>

\* fs::metadata(&ctx.wasm_out): an io error, or the length of the file
Sizes == {0, 1, MaxWasmSize - 1, MaxWasmSize, MaxWasmSize + 1,
          2 * MaxWasmSize}
MetadataOutcomes ==
    {[status |-> "failed", len |-> 0]}
        \cup {[status |-> "ok", len |-> n] : n \in Sizes}

\* a slip in the limit: `>=` for `>`
BinarySizeCheckOffByOne(meta) ==
    IF meta.status # "ok" THEN Err(IoError, <<>>)
    ELSE IF meta.len >= MaxWasmSize THEN Err(TooLarge, <<meta.len>>)
    ELSE Ok

BinarySizeCheck(meta) ==
    IF meta.status # "ok" THEN Err(IoError, <<>>)
    ELSE IF meta.len > MaxWasmSize THEN Err(TooLarge, <<meta.len>>)
    ELSE Ok

StepIrohaBinarySizeCheck ==
    /\ AtStep("step_iroha_binary_size_check")
    /\ StepDone("step_iroha_binary_size_check",
                BinarySizeCheck(wasm_out_meta))
    /\ UNCHANGED <<world, disk, writes, cur, profile, ctx, calls,
                   stderr>>

(***************************************************************************)
(* mod new (307-419): NewArgs::run and its three steps.                    *)
(***************************************************************************)
\* a slip in the array: the manifest written before the project exists
NewStepsXmlFirst ==
    <<"step_cargo_xml", "step_cargo_new", "step_main_entrypoint">>

NewSteps == <<"step_cargo_new", "step_cargo_xml", "step_main_entrypoint">>

\* SubCommand::run dispatches to NewArgs::run
RunNew ==
    /\ pc = "main"
    /\ subcommand = "new"
    /\ pc' = "new"
    /\ UNCHANGED <<world, disk, writes, cur, profile, ctx, step,
                   invoked, calls, result, stderr>>

\* the loop is about to call the step `name`
AtNewStep(name) == /\ pc = "new"
                   /\ step \in 1..Len(NewSteps)
                   /\ NewSteps[step] = name

InitFailed == <<"init project failed, error = {}">>
WriteFailed == <<"write to ", "{}", " failed, error = {}">>

\* the directory `cargo new <name>` makes and the two steps write into
ProjectDir(dir, name) == Join(dir, name)

\* current_dir().unwrap().join(&args.name).join("Cargo.toml")
ManifestPath(dir, name) == Join(ProjectDir(dir, name), <<"Cargo.toml">>)
\* current_dir().unwrap().join(&args.name).join("src").join("lib.rs")
EntrypointPath(dir, name) ==
    Join(Join(ProjectDir(dir, name), <<"src">>), <<"lib.rs">>)

\* cargo refuses a destination that exists: the current directory and the
\* directories above it do
CargoNew(ran, dir, name) ==
    IF ran = "ok" /\ ProjectDir(dir, name) \notin Ancestors(dir)
    THEN Ok ELSE Err(InitFailed, <<>>)

\* cmd!("cargo", "new", &args.name, "--lib").run(); cargo makes the
\* directory with a manifest and a src/lib.rs of its own
StepCargoNew ==
    /\ AtNewStep("step_cargo_new")
    /\ calls' = Append(calls, [cmd |-> "cargo new", name |-> args_name,
                               flags |-> <<"--lib">>])
    /\ disk' = IF CargoNew(cargo_new, cwd, args_name) = Ok
               THEN Put(Put(disk, File(ManifestPath(cwd, args_name),
                                       "cargo's Cargo.toml", <<>>)),
                        File(EntrypointPath(cwd, args_name),
                             "cargo's lib.rs", <<>>))
               ELSE disk
    /\ StepDone("step_cargo_new", CargoNew(cargo_new, cwd, args_name))
    /\ UNCHANGED <<world, writes, cur, profile, ctx, stderr>>

\* write(path, contents): the path of the diagnostic is in `writes`
Write(ran) == IF ran = "ok" THEN Ok ELSE Err(WriteFailed, <<>>)

\* the manifest with name = "<args.name>", written over cargo's
StepCargoXml ==
    /\ AtNewStep("step_cargo_xml")
    /\ \E ok \in BOOLEAN :
         IF ok
         THEN LET file == File(ManifestPath(cwd, args_name),
                               "Cargo.toml", args_name)
              IN  /\ writes' = Append(writes, file)
                  /\ disk' = IF fs_write.xml = "ok" THEN Put(disk, file)
                                                    ELSE disk
                  /\ StepDone("step_cargo_xml", Write(fs_write.xml))
         ELSE \* current_dir().unwrap()
              /\ StepDone("step_cargo_xml", Panic(UnwrapErr))
              /\ UNCHANGED <<disk, writes>>
    /\ UNCHANGED <<world, cur, profile, ctx, calls, stderr>>

\* the entry point template, written over cargo's src/lib.rs
StepMainEntrypoint ==
    /\ AtNewStep("step_main_entrypoint")
    /\ \E ok \in BOOLEAN :
         IF ok
         THEN LET file == File(EntrypointPath(cwd, args_name), "lib.rs", <<>>)
              IN  /\ writes' = Append(writes, file)
                  /\ disk' = IF fs_write.rs = "ok" THEN Put(disk, file)
                                                   ELSE disk
                  /\ StepDone("step_main_entrypoint", Write(fs_write.rs))
         ELSE \* current_dir().unwrap()
              /\ StepDone("step_main_entrypoint", Panic(UnwrapErr))
              /\ UNCHANGED <<disk, writes>>
    /\ UNCHANGED <<world, cur, profile, ctx, calls, stderr>>

\* the array is exhausted: Ok(())
NewRunOk ==
    /\ pc = "new"
    /\ step > Len(NewSteps)
    /\ Return(Ok)
    /\ UNCHANGED <<world, disk, writes, cur, profile, ctx, step,
                   invoked, calls, stderr>>

(***************************************************************************)
(* The initial states: a command line and a world, drawn from the sets     *)
(* given; the program at the start of main.                                *)
(***************************************************************************)
Options == SeqsUpTo(Tokens, MaxOpts)

\* a current directory of depth 0..MaxDepth and the ancestors of it that
\* hold a manifest
Places ==
    UNION {{[cwd |-> Chain(d), manifests |-> ms] :
                ms \in SUBSET Ancestors(Chain(d))} : d \in 0..MaxDepth}

RunOutcomes == {"ok", "failed"}

\* the program at the start of main
Start ==
    /\ disk = {}
    /\ writes = <<>>
    /\ pc = "main"
    /\ cur = <<>>
    /\ profile = "unset"
    /\ ctx = [built |-> FALSE]
    /\ step = 1
    /\ invoked = <<>>
    /\ calls = <<>>
    /\ result = None
    /\ stderr = <<>>

\* `build` with the options, places, manifests and tool outcomes given
InitFrom(Os, Ps, Ms, Vs, Ss, Bs, Ws, Zs) ==
    /\ subcommand = "build"
    /\ args_name = <<"a">>
    /\ cargo_new = "ok"
    /\ fs_write = [xml |-> "ok", rs |-> "ok"]
    /\ extra_options \in Os
    /\ \E p \in Ps : /\ cwd = p.cwd
                     /\ manifests = p.manifests
    /\ manifest \in Ms
    /\ rustc_version \in Vs
    /\ rustc_sysroot \in Ss
    /\ cargo_build \in Bs
    /\ wasm_opt \in Ws
    /\ wasm_out_meta \in Zs
    /\ Start

WriteOutcomes == [xml : RunOutcomes, rs : RunOutcomes]

\* `new` with the names, current directories and outcomes given
InitNew(Ns, Ds, Cs, Fs) ==
    /\ subcommand = "new"
    /\ args_name \in Ns
    /\ cargo_new \in Cs
    /\ fs_write \in Fs
    /\ extra_options = <<>>
    /\ cwd \in Ds
    /\ manifests = {}
    /\ manifest = [read |-> "unreadable"]
    /\ rustc_version = [status |-> "missing"]
    /\ rustc_sysroot = [status |-> "ok", stdout |-> <<"/", "u", "s", "r">>,
                        target |-> "exists", rustup |-> "unasked"]
    /\ cargo_build = "ok"
    /\ wasm_opt = "ok"
    /\ wasm_out_meta = [status |-> "ok", len |-> 1]
    /\ Start

\* a few of each, enough for every path through the program
FewOptions == {<<>>, <<"--release">>}
FewPlaces ==
    {[cwd |-> Chain(1), manifests |-> ms] : ms \in {{}, {<<>>}, {Chain(1)}}}
FewManifests ==
    {[read |-> "unreadable"], [read |-> "malformed"]}
        \cup {[read |-> "parsed", name |-> <<"a">>, crate_type |-> k] :
                  k \in {<<>>, <<"cdylib">>, <<"rlib">>}}
FewVersions ==
    {[status |-> "missing"],
     [status |-> "ok", stdout |-> VersionText(<<"2", "9">>)],
     [status |-> "ok", stdout |-> VersionText(<<"3", "0">>)]}
OneSysroot ==
    {[status |-> "ok", stdout |-> <<"/", "u", "s", "r">>,
      target |-> "exists", rustup |-> "unasked"]}
OneMeta == {[status |-> "ok", len |-> 1]}
FewNames == {<<"a">>}
FewDirs == {Chain(1)}

\* a few runs of `new`, enough for every path through it
InitFewNew == InitNew(FewNames, FewDirs, RunOutcomes, WriteOutcomes)
\* a few runs of `build`, enough for every path through it
InitFewBuild ==
    InitFrom(FewOptions, FewPlaces, FewManifests, FewVersions,
             OneSysroot, {"ok"}, {"ok"}, OneMeta)

\* every way the tools and the artifact can turn out
Init ==
    \/ InitFrom(FewOptions, FewPlaces, FewManifests, FewVersions,
             SysrootOutcomes, RunOutcomes, RunOutcomes, MetadataOutcomes)
    \/ InitFewNew

\* every command line and manifest
InitContext ==
    \/ InitFrom(Options, FewPlaces, ManifestOutcomes, FewVersions,
             OneSysroot, {"ok"}, {"ok"}, OneMeta)
    \/ InitFewNew

\* every place to start from
InitRoot ==
    \/ InitFrom(FewOptions, Places, FewManifests, FewVersions,
             OneSysroot, {"ok"}, {"ok"}, OneMeta)
    \/ InitFewNew

\* every name and current directory of `new`, every way it can turn out
InitScaffold ==
    \/ InitNew(Names, {Chain(d) : d \in 0..MaxDepth}, RunOutcomes,
               WriteOutcomes)
    \/ InitFewBuild

\* a few runs of each command, a failed sysroot query among them
InitLive ==
    \/ InitFrom(FewOptions, FewPlaces, FewManifests, FewVersions,
                OneSysroot \cup {[status |-> "failed", stdout |-> <<>>,
                                  target |-> "unasked",
                                  rustup |-> "unasked"]},
                {"ok"}, {"ok"}, OneMeta)
    \/ InitFewNew

\* every output of `rustc --version`
InitVersion ==
    \/ InitFrom(FewOptions, FewPlaces, FewManifests, VersionOutcomes,
             OneSysroot, {"ok"}, {"ok"}, OneMeta)
    \/ InitFewNew

(***************************************************************************)
(* The program.                                                            *)
(***************************************************************************)
Next ==
    \/ CurrentDir
    \/ RootPop
    \/ RootNotFound
    \/ RootFound
    \/ NewContext
    \/ StepCheckRustcVersion
    \/ StepCheckCrateConfig
    \/ StepCheckForWasmTarget
    \/ StepBuildWasm
    \/ StepWasmOpt
    \/ StepIrohaBinarySizeCheck
    \/ RunOk
    \/ RunNew
    \/ StepCargoNew
    \/ StepCargoXml
    \/ StepMainEntrypoint
    \/ NewRunOk
    \/ Main

Spec == Init /\ [][Next]_vars
SpecContext == InitContext /\ [][Next]_vars
SpecRoot == InitRoot /\ [][Next]_vars
SpecVersion == InitVersion /\ [][Next]_vars
SpecScaffold == InitScaffold /\ [][Next]_vars

\* the program is one thread that runs until it returns or panics: a step
\* that can be taken is taken
LiveRoot == InitRoot /\ [][Next]_vars /\ WF_vars(Next)
Live == InitLive /\ [][Next]_vars /\ WF_vars(Next)

(***************************************************************************)
(* The claims.                                                             *)
(***************************************************************************)
\* what the step `name` gives in this world with this context
StepResultOf(name) ==
    CASE name = "step_check_rustc_version" -> CheckRustcVersion(rustc_version)
      [] name = "step_check_crate_config" -> CheckCrateConfig(ctx)
      [] name = "step_check_for_wasm_target" ->
             CheckForWasmTarget(rustc_sysroot)
      [] name = "step_build_wasm" -> BuildWasm(cargo_build)
      [] name = "step_wasm_opt" -> WasmOpt(wasm_opt)
      [] name = "step_iroha_binary_size_check" ->
             BinarySizeCheck(wasm_out_meta)

Ended == pc \in {"returned", "exit", "panicked"}

\* C1: build pipeline fail-fast.  Whenever the k-th step invoked did not
\* succeed, no step was invoked after it; no step is invoked twice; and when
\* the step returned a failure, the run has returned exactly that failure.
C1_FailFast ==
    subcommand = "build" =>
        \A k \in 1..Len(invoked) :
            LET r == StepResultOf(invoked[k])
            IN  /\ r.tag # "Ok" => Len(invoked) = k
                /\ r.tag = "Err" => /\ result = r
                                    /\ pc \in {"returned", "exit"}
                /\ \A j \in 1..Len(invoked) :
                       j # k => invoked[j] # invoked[k]

\* step 2 of 6 failed, the run is over with that failure and steps 3-6
\* were not invoked
C1_Witness ==
    /\ pc = "exit"
    /\ invoked = <<"step_check_rustc_version", "step_check_crate_config">>
    /\ StepResultOf("step_check_crate_config").tag = "Err"
    /\ stderr = <<StepResultOf("step_check_crate_config")>>

ClaimedOrder ==
    <<"step_check_rustc_version", "step_check_crate_config",
      "step_check_for_wasm_target", "step_build_wasm", "step_wasm_opt",
      "step_iroha_binary_size_check">>

\* C2: build step order.  The steps invoked are a prefix of the fixed order
\* (toolchain version, library kind, target, compilation, optimization,
\* output size), each after all earlier ones succeeded, and a run that is
\* over reports success exactly when all six were invoked and succeeded.
C2_StepOrder ==
    subcommand = "build" =>
        /\ Len(invoked) <= Len(ClaimedOrder)
        /\ \A k \in 1..Len(invoked) :
               /\ invoked[k] = ClaimedOrder[k]
               /\ \A j \in 1..(k - 1) :
                      StepResultOf(ClaimedOrder[j]).tag = "Ok"
        /\ Ended =>
               (result.tag = "Ok" <=>
                    /\ invoked = ClaimedOrder
                    /\ \A k \in 1..Len(ClaimedOrder) :
                           StepResultOf(ClaimedOrder[k]).tag = "Ok")

\* a run that invoked all six steps and reported success
C2_Witness ==
    /\ pc = "exit"
    /\ result = Ok
    /\ invoked = ClaimedOrder
    /\ stderr = <<>>

\* C3: a manifest that parses but lists no library kind makes the context
\* builder return a failure (MissingLibraryKind) to run's caller, and no
\* step is invoked.
C3_MissingLibraryKind ==
    (/\ subcommand = "build"
     /\ manifest.read = "parsed"
     /\ manifest.crate_type = <<>>
     /\ cur \in manifests
     /\ pc \notin {"main", "root", "config"})
        => /\ result.tag = "Err"
           /\ invoked = <<>>

\* C4: the context builder selects release mode exactly when some option
\* equals the token --release, at any position and any number of times, and
\* debug mode otherwise; the mode is the directory of both artifact paths
\* (seen there when the package name is relative, so that it is joined to
\* the directory).
C4_ReleaseMode ==
    LET token == \E i \in 1..Len(extra_options) :
                     extra_options[i] = "--release"
        mode == IF token THEN "release" ELSE "debug"
    IN  /\ profile # "unset" => profile = mode
        /\ (ctx.built /\ (manifest.name = <<>> \/ manifest.name[1] # "/"))
               => /\ ctx.wasm_in[Len(cur) + 3] = <<mode>>
                  /\ ctx.wasm_out[Len(cur) + 3] = <<mode>>

\* release mode selected by a --release that follows a look-alike token
C4_Witness ==
    /\ ctx.built
    /\ extra_options = <<"--releases", "--release">>
    /\ profile = "release"
    /\ manifest.name = <<"a">>

\* C5: the two artifact paths of a context differ, and both are directly in
\* <root>/target/wasm32-unknown-unknown/<mode>/ with the file names
\* <packageName>.wasm and <packageName>_optimized.wasm.
C5_ArtifactPaths ==
    ctx.built =>
        LET folder == cur \o <<<<"target">>, <<"wasm32-unknown-unknown">>,
                               <<profile>>>>
        IN  /\ ctx.wasm_in # ctx.wasm_out
            /\ ctx.wasm_in = folder \o <<manifest.name \o <<".wasm">>>>
            /\ ctx.wasm_out
                   = folder \o <<manifest.name \o <<"_optimized.wasm">>>>

\* C6: once the output-size check has run on a file of n bytes, it has
\* succeeded exactly when n <= 4194304; when it failed, the run's failure
\* is the too-large diagnostic, which names the limit 4194304 and n.
C6_SizeLimit ==
    (subcommand = "build" /\ Len(invoked) = 6
         /\ wasm_out_meta.status = "ok") =>
        LET n == wasm_out_meta.len
        IN  IF n <= 4194304
            THEN step = 7 /\ result.tag \in {"None", "Ok"}
            ELSE /\ step = 6
                 /\ result.tag = "Err"
                 /\ \E i \in 1..Len(result.msg) : result.msg[i] = "4194304"
                 /\ result.nums = <<n>>
                 /\ Ended

\* an artifact one byte over the limit is refused
C6_Witness ==
    /\ pc = "exit"
    /\ Len(invoked) = 6
    /\ wasm_out_meta = [status |-> "ok", len |-> 4194305]
    /\ result.tag = "Err"
    /\ result.nums = <<4194305>>

RECURSIVE DecimalText(_)
DecimalText(n) ==
    IF n < 10 THEN <<ToString(n)>>
    ELSE DecimalText(n \div 10) \o <<ToString(n % 10)>>

RECURSIVE Pow10(_)
Pow10(k) == IF k = 0 THEN 1 ELSE 10 * Pow10(k - 1)

\* C7: once the version check has run on the output "rustc 1.M.0", it has
\* passed exactly when M >= 30; for M < 30 the run has failed with the
\* too-old diagnostic naming M, and no later step was invoked.
C7_VersionThreshold ==
    (subcommand = "build" /\ Len(invoked) >= 1
         /\ rustc_version.status = "ok") =>
        \A M \in 0..(Pow10(MaxMinorLen) - 1) :
            rustc_version.stdout = VersionText(DecimalText(M)) =>
                IF M >= 30
                THEN step >= 2
                ELSE /\ step = 1
                     /\ result = Err(TooOld, <<M>>)
                     /\ invoked = <<"step_check_rustc_version">>
                     /\ \A i \in 1..Len(calls) : calls[i].cmd # "cargo"
                     /\ Ended

\* rustc 1.25.0 is refused as too old
C7_Witness ==
    /\ pc = "exit"
    /\ rustc_version
           = [status |-> "ok", stdout |-> VersionText(<<"2", "5">>)]
    /\ result = Err(TooOld, <<25>>)
    /\ stderr = <<result>>

\* the part of the output between "rustc 1." and the next "."
RECURSIVE UpToDot(_)
UpToDot(s) ==
    IF s = <<>> \/ Head(s) = "." THEN <<>>
    ELSE <<Head(s)>> \o UpToDot(Tail(s))

\* a decimal numeral: digits, at least one, after an optional + sign
Numeral(t) ==
    LET ds == IF t # <<>> /\ t[1] = "+" THEN Tail(t) ELSE t
    IN  ds # <<>> /\ \A i \in 1..Len(ds) : ds[i] \in Digits

\* the version query failed: no tool, a non-zero exit, or an output that
\* does not start with "rustc 1." or whose minor component is no numeral
QueryFailed(out) ==
    \/ out.status # "ok"
    \/ Len(out.stdout) < 3
    \/ SubSeq(out.stdout, 1, 3) # <<"rustc ", "1", ".">>
    \/ ~Numeral(UpToDot(SubSeq(out.stdout, 4, Len(out.stdout))))

\* C8: once the version check has run and the version query failed, the run
\* has returned a failure other than the too-old one, and no later step was
\* invoked.
C8_ToolchainUnavailable ==
    (subcommand = "build" /\ Len(invoked) >= 1
         /\ QueryFailed(rustc_version)) =>
        /\ step = 1
        /\ result.tag = "Err"
        /\ result.msg # TooOld
        /\ result.msg \in {IoError, ParseIntError, CantFigureOut}
        /\ invoked = <<"step_check_rustc_version">>
        /\ Ended

\* a minor component that is no number
C8_Witness ==
    /\ pc = "exit"
    /\ rustc_version
           = [status |-> "ok", stdout |-> VersionText(<<"3", "x">>)]
    /\ result.tag = "Err"
    /\ result.msg # TooOld
    /\ stderr = <<result>>

\* the manifest lines the user is told to add
HasSnippet(msg) ==
    \E i \in 1..(Len(msg) - 1) :
        msg[i] = "[lib]" /\ msg[i + 1] = "crate-type = [\"cdylib\"]"

\* C9: once the library-kind check has run for a manifest with at least one
\* kind, it has passed exactly when the first kind is cdylib, whatever
\* follows; otherwise the run has failed with a message that holds the
\* manifest snippet, and the compilation was not invoked.
C9_LibraryKind ==
    (/\ Len(invoked) >= 2
     /\ manifest.read = "parsed"
     /\ manifest.crate_type # <<>>) =>
        IF manifest.crate_type[1] = "cdylib"
        THEN step >= 3
        ELSE /\ step = 2
             /\ result.tag = "Err"
             /\ HasSnippet(result.msg)
             /\ invoked = <<"step_check_rustc_version",
                            "step_check_crate_config">>
             /\ \A i \in 1..Len(calls) : calls[i].cmd # "cargo"
             /\ Ended

\* rlib first and cdylib second is refused
C9_Witness ==
    /\ pc = "exit"
    /\ manifest.read = "parsed"
    /\ manifest.crate_type = <<"rlib", "cdylib">>
    /\ Len(invoked) = 2
    /\ HasSnippet(result.msg)

\* the directories from the start up to the root that hold a manifest
Candidates == {d \in Ancestors(cwd) : d \in manifests}

\* C10: when the start or an ancestor of it holds a manifest, the locator
\* does not fail, and what it returns is the nearest such directory on the
\* way from the start to the root; up to its return no command has run and
\* nothing was logged.
C10_LocatorFinds ==
    Candidates # {} =>
        /\ result.msg # NoCargoToml
        /\ pc = "root" => calls = <<>> /\ stderr = <<>>
        /\ pc = "config" =>
               /\ cur \in Candidates
               /\ \A d \in Candidates : Len(d) <= Len(cur)
               /\ calls = <<>> /\ stderr = <<>>

\* the manifest one level up is found although the root holds one too
C10_Witness ==
    /\ pc = "config"
    /\ cwd = Chain(2)
    /\ manifests = {<<>>, Chain(1)}
    /\ cur = Chain(1)

\* C11: when neither the start nor any ancestor of it holds a manifest, the
\* walk towards the root ends and the locator fails with the message that
\* names the scaffold subcommand; the run ends with that failure logged, and
\* no step was invoked and no command was run on the way.
C11_LocatorFails ==
    /\ [](subcommand = "build" /\ Candidates = {} =>
             /\ pc \notin {"config", "steps", "panicked"}
             /\ invoked = <<>> /\ calls = <<>>
             /\ ~ctx.built
             /\ pc = "root" => Len(cur) <= Len(cwd)
             /\ result.tag = "Err" => result.msg \in {NoCargoToml, IoError})
    /\ (subcommand = "build" /\ Candidates = {} /\ pc = "root")
           ~> /\ pc = "exit"
              /\ result = Err(NoCargoToml, <<>>)
              /\ \E i \in 1..Len(result.msg) :
                     result.msg[i] = "iroha_wasm_pack new"
              /\ stderr = <<result>>

\* two levels down with no manifest anywhere: the walk reached the root
C11_Witness ==
    /\ pc = "exit"
    /\ cwd = Chain(2)
    /\ manifests = {}
    /\ cur = <<>>
    /\ result = Err(NoCargoToml, <<>>)
    /\ stderr = <<result>>

\* C12: the arguments of the compilation are the eight fixed ones followed
\* by every option of the command line, each one verbatim, in the same order,
\* none dropped, doubled or rewritten; so when the context is in release mode
\* the compiler is given --release too.
C12_CompilerArguments ==
    \A i \in 1..Len(calls) :
        calls[i].cmd = "cargo" =>
            LET args == calls[i].args
            IN  /\ Len(args) = 8 + Len(extra_options)
                /\ SubSeq(args, 1, 8)
                       = <<"+nightly", "build", "-Z", "build-std", "-Z",
                           "build-std-features=panic_immediate_abort",
                           "--target", "wasm32-unknown-unknown">>
                /\ \A j \in 1..Len(extra_options) :
                       args[8 + j] = extra_options[j]
                /\ profile = "release" =>
                       \E j \in 9..Len(args) : args[j] = "--release"

\* the compilation was run with --release given twice
C12_Witness ==
    /\ extra_options = <<"--release", "--release">>
    /\ \E i \in 1..Len(calls) : calls[i].cmd = "cargo"
    /\ profile = "release"

\* what the step `name` of `new` gives in this world when the current
\* directory can be read
NewStepResultOf(name) ==
    CASE name = "step_cargo_new" -> CargoNew(cargo_new, cwd, args_name)
      [] name = "step_cargo_xml" -> Write(fs_write.xml)
      [] name = "step_main_entrypoint" -> Write(fs_write.rs)

\* some file of the disk is at this path
Exists(path) == \E f \in disk : f.path = path

\* C13: the steps of `new` are invoked in the order project initialization,
\* manifest generation, entry point generation, each after all earlier ones
\* succeeded; when a step returned a failure the run has returned exactly
\* that failure and no later step was invoked; and what an earlier step
\* created is still there: the project cargo made, and the manifest written
\* by the second step when the third failed.
C13_ScaffoldPipeline ==
    subcommand = "new" =>
        LET order == <<"step_cargo_new", "step_cargo_xml",
                       "step_main_entrypoint">>
        IN  /\ Len(invoked) <= 3
            /\ \A k \in 1..Len(invoked) :
                   LET r == NewStepResultOf(order[k])
                   IN  /\ invoked[k] = order[k]
                       /\ k < Len(invoked) => r.tag = "Ok"
                       /\ (k = Len(invoked) /\ r.tag = "Err"
                              /\ result.tag # "Panic")
                             => /\ result = r
                                /\ pc \in {"returned", "exit"}
                                /\ step = k
            /\ (Len(invoked) >= 1 /\ NewStepResultOf(order[1]) = Ok)
                  => /\ Exists(ManifestPath(cwd, args_name))
                     /\ Exists(EntrypointPath(cwd, args_name))
            /\ (Len(invoked) = 3 /\ fs_write.xml = "ok")
                  => File(ManifestPath(cwd, args_name), "Cargo.toml",
                          args_name) \in disk

\* the manifest could not be written: the run is over with that failure,
\* the entry point step was not invoked, the project cargo made is there
C13_Witness ==
    /\ subcommand = "new"
    /\ pc = "exit"
    /\ invoked = <<"step_cargo_new", "step_cargo_xml">>
    /\ result = Err(WriteFailed, <<>>)
    /\ stderr = <<result>>
    /\ File(ManifestPath(cwd, args_name), "cargo's Cargo.toml", <<>>)
           \in disk

\* the text <dir>/<name>/<rest> read as a path
Under(dir, name, rest) == dir \o Components(name) \o rest

\* the fs::write calls of `new` are the manifest at `toml` and then the
\* entry point at `entry`, as far as the run got: none before cargo made the
\* project, both once the run succeeded, the manifest holding the name
WritesAre(toml, entry) ==
    /\ Len(writes) <= 2
    /\ Len(invoked) <= 1 => writes = <<>>
    /\ NewStepResultOf("step_cargo_new") # Ok => writes = <<>>
    /\ Len(writes) >= 1 =>
           /\ writes[1] = File(toml, "Cargo.toml", args_name)
           /\ Len(invoked) >= 2
    /\ Len(writes) = 2 =>
           /\ writes[2] = File(entry, "lib.rs", <<>>)
           /\ Len(invoked) = 3
    /\ (Ended /\ result = Ok) =>
           /\ Len(writes) = 2
           /\ disk = {writes[1], writes[2]}

\* C14: a run of `new <name>` writes nothing before cargo made the project
\* and nothing when that failed, then the manifest with name = "<name>" at
\* <cwd>/<name>/Cargo.toml, then the entry point at <cwd>/<name>/src/lib.rs,
\* over the files cargo made there; a successful run has made exactly these
\* two writes, and no other path is written.
C14_ScaffoldWrites ==
    subcommand = "new" =>
        WritesAre(Under(cwd, args_name, <<<<"Cargo.toml">>>>),
                  Under(cwd, args_name, <<<<"src">>, <<"lib.rs">>>>))

\* the installer's token at some position of the text
HasRustupToken(t) ==
    \E i \in 1..(Len(t) - 5) :
        SubSeq(t, i, i + 5) = <<"r", "u", "s", "t", "u", "p">>

\* how often the installer was run
Installs == Cardinality({i \in 1..Len(calls) : calls[i].cmd = "rustup"})

\* C15: the installer is not run before the target check.  Once the check
\* has run with the sysroot known: if the target is there the check passed
\* and the installer was not run; if it is absent and the sysroot path holds
\* the token rustup, the installer was run exactly once and the check
\* failed, with the installer's diagnostic, exactly when the installer
\* failed; if it is absent and the path holds no such token the check
\* passed, the installer was not run, and the compilation is what follows.
C15_TargetCheck ==
    subcommand = "build" =>
        /\ Len(invoked) < 3 => Installs = 0
        /\ (Len(invoked) >= 3 /\ rustc_sysroot.status = "ok") =>
               LET passed == /\ step >= 4
                             /\ Len(invoked) = 3 =>
                                    /\ pc = "steps"
                                    /\ result = None
                             /\ Len(invoked) >= 4 =>
                                    invoked[4] = "step_build_wasm"
                   failed == /\ step = 3
                             /\ Len(invoked) = 3
                             /\ result = Err(RustupFailed, <<>>)
                             /\ pc \in {"returned", "exit"}
               IN  CASE rustc_sysroot.target = "exists" ->
                            Installs = 0 /\ passed
                     [] rustc_sysroot.target = "absent"
                          /\ HasRustupToken(rustc_sysroot.stdout) ->
                            /\ Installs = 1
                            /\ IF rustc_sysroot.rustup = "failed"
                               THEN failed ELSE passed
                     [] rustc_sysroot.target = "absent"
                          /\ ~HasRustupToken(rustc_sysroot.stdout) ->
                            Installs = 0 /\ passed

\* the target was absent under a rustup sysroot and the installer failed
C15_Witness ==
    /\ pc = "exit"
    /\ rustc_sysroot.status = "ok"
    /\ rustc_sysroot.target = "absent"
    /\ HasRustupToken(rustc_sysroot.stdout)
    /\ rustc_sysroot.rustup = "failed"
    /\ Installs = 1
    /\ result = Err(RustupFailed, <<>>)
    /\ stderr = <<result>>

\* C16: once the compilation has succeeded, the artifact it produced is at
\* the input path of the context, whatever the options forwarded to the
\* compiler (stated here for the package names that are plain words).
C16_PathAgreement ==
    (/\ subcommand = "build"
     /\ Len(invoked) >= 4
     /\ cargo_build = "ok"
     /\ manifest.name # <<>>
     /\ \A i \in 1..Len(manifest.name) : manifest.name[i] # "/")
        => /\ Exists(ctx.wasm_in)
           /\ \A i \in 1..Len(calls) :
                  calls[i].cmd = "cargo" =>
                      profile = CargoMode(calls[i].args)

\* C17: when the context builder has ended without a context because no
\* project was found, the manifest did not parse, or it lists no library
\* kind, the run has returned a failure, no step was invoked and no command
\* was run.
C17_NoStepBeforeContext ==
    (/\ subcommand = "build"
     /\ ~ctx.built
     /\ pc \notin {"main", "root", "config"}
     /\ \/ Candidates = {}
        \/ manifest.read = "malformed"
        \/ manifest.read = "parsed" /\ manifest.crate_type = <<>>)
        => /\ result.tag = "Err"
           /\ pc \in {"returned", "exit"}
           /\ invoked = <<>>
           /\ calls = <<>>

\* C18: once the target check has run and its sysroot query failed, the
\* run has returned a failure, which main logs like any other; the run has
\* not ended in another way, and the compilation, the optimization and the
\* size check were not invoked.
C18_SysrootFailure ==
    (/\ subcommand = "build"
     /\ Len(invoked) >= 3
     /\ rustc_sysroot.status # "ok")
        => /\ result.tag = "Err"
           /\ pc \in {"returned", "exit"}
           /\ pc = "exit" => stderr = <<result>>
           /\ Len(invoked) = 3

\* C19: a run of `build` invokes at most six steps and a run of `new` at
\* most three; no step is invoked once run has produced its outcome; a run
\* that has stopped has stopped at the exit of main, either in success with
\* nothing logged or in one failure, logged once; and every run stops.
C19_Termination ==
    /\ [](Len(invoked) <= IF subcommand = "build" THEN 6 ELSE 3)
    /\ [][Ended => invoked' = invoked]_vars
    /\ [](pc \in {"exit", "panicked"} =>
             /\ pc = "exit"
             /\ \/ result = Ok /\ stderr = <<>>
                \/ result.tag = "Err" /\ stderr = <<result>>)
    /\ <>(pc \in {"exit", "panicked"})

====
